---------------------------- MODULE Spec2Model ----------------------------
(***************************************************************************)
(* A model of Tribler's TFTP transfer engine                               *)
(* (Tribler/Core/Service/TFTP/handler.py, class TftpHandler).              *)
(*                                                                         *)
(* Two handlers ("engines") live at addresses 1 and 2; address 3 is a host *)
(* that is not an engine.  Each engine owns a mapping from peer address to *)
(* a deque of sessions.  Deques are heap objects: data_came_in keeps a     *)
(* reference to the deque it looked up after it has released the lock.     *)
(*                                                                         *)
(* Threads of one engine: the datagram callback data_came_in (one datagram *)
(* at a time, but the lock is held only around the lookup and around the   *)
(* pop, so it is modelled as a sequence of steps), the periodic sweep      *)
(* _check_timeout (one locked region, one step) and download_file (one     *)
(* locked region, one step).                                               *)
(***************************************************************************)
EXTENDS Integers, Sequences, FiniteSets, TLC

\* ------------------------------------------------------------------ bounds
\* Sessions created over a run (both engines together).
MaxSessions == 2
\* The clock stops advancing here.
MaxTime == 1
\* Block numbers of the ACK and DATA packets the environment sends, and the
\* block number up to which a session still receives packets.
MaxBlock == 1
\* Deque objects alive at once (mapping entries plus references held by
\* data_came_in frames).
MaxDq == 4
\* DEFAULT_BLOCK_SIZE of session.py, scaled down from 512 bytes.
DEFAULT_BLOCK_SIZE == 2
\* DEFAULT_TIMEOUT of session.py, in clock ticks.
DEFAULT_TIMEOUT == 1

Engines == {1, 2}
Addresses == {1, 2, 3}

\* handler.py:58, self.block_size (the constructor's default).
HandlerBlockSize(e) == DEFAULT_BLOCK_SIZE

Min(a, b) == IF a < b THEN a ELSE b

\* Python's seq[a:b] for 0 <= a <= b: the slice is clamped to the sequence.
Slice(seq, a, b) ==
    IF a >= Len(seq) THEN << >> ELSE SubSeq(seq, a + 1, Min(b, Len(seq)))

\* ----------------------------------------------------------------- packets
\* A decoded packet is a dictionary; every packet of the model carries every
\* field, the ones its opcode does not use at their defaults.  opts is the
\* set of option names of a request: "none" stands for a request without an
\* 'options' entry.
Pkt(op, bn, data, fname, opts, blksize, timeout, tsize) ==
    [opcode |-> op, block_number |-> bn, data |-> data, file_name |-> fname,
     opts |-> opts, blksize |-> blksize, timeout |-> timeout, tsize |-> tsize]

NoOptions == {"none"}
BothOptions == {"blksize", "timeout"}

RrqPacket(fname, opts, blksize, timeout) ==
    Pkt("RRQ", 0, << >>, fname, opts, blksize, timeout, 0)
WrqPacket(fname) == Pkt("WRQ", 0, << >>, fname, BothOptions, DEFAULT_BLOCK_SIZE, DEFAULT_TIMEOUT, 0)
AckPacket(bn) == Pkt("ACK", bn, << >>, "", {}, 0, 0, 0)
DataPacket(bn, data) == Pkt("DATA", bn, data, "", {}, 0, 0, 0)
ErrorPacket(code) == Pkt("ERROR", code, << >>, "", {}, 0, 0, 0)
OackPacket(bn, blksize, timeout, tsize) ==
    Pkt("OACK", bn, << >>, "", BothOptions \cup {"tsize"}, blksize, timeout, tsize)

\* Bytes that do not decode.
Malformed == Pkt("MALFORMED", 0, << >>, "", {}, 0, 0, 0)
\* No packet (None).
NoPacket == Pkt("NONE", 0, << >>, "", {}, 0, 0, 0)

\* decode_packet (packet.py): raises InvalidPacketException on bytes that are
\* no packet, and returns the packet's dictionary otherwise.
DecodeFails(datagram) == datagram.opcode = "MALFORMED"

\* ------------------------------------------------------------- file system
\* The files under root_dir, by name; "dir:d" is a directory, which
\* _load_directory packs into one archive and loads as a file.
FileNames == {"f0", "f1", "f2", "f3", "f4", "dir:d"}
FileContent(name) ==
    CASE name = "f0" -> << >>
      [] name = "f1" -> <<1>>
      [] name = "f2" -> <<1, 2>>
      [] name = "f3" -> <<1, 2, 3>>
      [] name = "f4" -> <<1, 2, 3, 4>>
      [] name = "dir:d" -> <<7, 8, 9>>
      [] OTHER -> << >>
\* _load_file / _load_directory raise OSError for a name that is not there.
LoadRaises(name) == name \notin FileNames

\* ------------------------------------------------------------------- state
VARIABLES
    session_dict,    \* [Engines -> [Addresses -> 0..MaxDq]]: self._session_dict,
                     \* the deque of each key; 0: the key is absent
    deques,          \* [1..MaxDq -> Seq(session id)]: the deque objects
    sessions,        \* Seq(Session): every Session object created, by id
    calls,           \* per session: the callbacks invoked on it so far
    self_next_func,  \* [Engines -> session id or 0]: the handler's own
                     \* next_func attribute (handler.py:223)
    dci,             \* [Engines -> frame]: the data_came_in call in progress
    now,             \* time()
    net,             \* [Engines -> Seq(datagram)]: datagrams on their way to
                     \* an engine, in the order sent
    out,             \* the packets the last step sent (endpoint.send_packet)
    exc,             \* the exception the last step let escape, or "none"
    origin,          \* [Engines -> session id or 0]: the session on whose behalf
                     \* the datagram the engine's data_came_in call was given
                     \* had been sent; 0 when the sender is no engine
    last             \* the last step: the method that ran, its engine and, for
                     \* data_came_in, the datagram it was given

vars == <<session_dict, deques, sessions, calls, self_next_func, dci, now, net, out, exc, origin, last>>

Op(name, e, datagram) == [op |-> name, engine |-> e, datagram |-> datagram]

\* Session.__init__ (session.py), as called at handler.py:90 and :210.
NewSession(e, is_client, address, file_name, file_data, file_size, block_size, timeout, has_callbacks) ==
    [engine |-> e, is_client |-> is_client, address |-> address,
     request |-> "RRQ", file_name |-> file_name, file_data |-> file_data,
     file_size |-> file_size, block_number |-> 0, block_size |-> block_size,
     timeout |-> timeout, last_contact_time |-> 0, last_read_count |-> -1,
     last_received_packet |-> "None", is_done |-> FALSE, is_failed |-> FALSE,
     next_func |-> "None", has_callbacks |-> has_callbacks]

NoCalls == [success |-> 0, failure |-> 0, timeout |-> 0, data |-> << >>]

IdleFrame == [pc |-> "idle", addr |-> 0, packet |-> NoPacket, queue |-> 0, session |-> 0]

\* The part of the state a handler's code reads and writes, as one record
\* that the operators below thread through the statements of a method.
Cur == [session_dict |-> session_dict, deques |-> deques, sessions |-> sessions,
        calls |-> calls, self_next_func |-> self_next_func, out |-> << >>,
        exc |-> "none"]

Commit(st) ==
    /\ session_dict' = st.session_dict
    /\ deques' = st.deques
    /\ sessions' = st.sessions
    /\ calls' = st.calls
    /\ self_next_func' = st.self_next_func
    /\ out' = st.out
    /\ exc' = st.exc

Raise(st, name) == [st EXCEPT !.exc = name]


\* ------------------------------------------------------------ sending
\* _send_packet: hand the packet to the endpoint, addressed to the session's
\* peer, and note the time of contact.  (last_sent_packet is written here and
\* read nowhere; it is not part of the state.)
send_packet(st, s, packet) ==
    [st EXCEPT
        !.out = Append(@, [from |-> st.sessions[s].engine,
                           to |-> st.sessions[s].address,
                           session |-> s, packet |-> packet]),
        !.sessions[s].last_contact_time = now]

send_request_packet(st, s) ==
    send_packet(st, s, RrqPacket(st.sessions[s].file_name, BothOptions,
                                 st.sessions[s].block_size, st.sessions[s].timeout))

send_data_packet(st, s, block_number, data) ==
    send_packet(st, s, DataPacket(block_number, data))

send_ack_packet(st, s, block_number) ==
    send_packet(st, s, AckPacket(block_number))

send_error_packet(st, s, error_code) ==
    send_packet(st, s, ErrorPacket(error_code))

send_oack_packet(st, s) ==
    send_packet(st, s, OackPacket(st.sessions[s].block_number, st.sessions[s].block_size,
                                  st.sessions[s].timeout, st.sessions[s].file_size))

\* _handle_error
handle_error(st, s, error_code) ==
    send_error_packet([st EXCEPT !.sessions[s].is_failed = TRUE], s, error_code)

\* ------------------------------------------------- response processing
\* _get_next_data, the block it returns: file_data[start_idx:end_idx], where
\* the start is computed from the session's block size and the end from the
\* handler's.
NextData(st, s) ==
    LET sess == st.sessions[s]
        start_idx == sess.block_number * sess.block_size
        end_idx == start_idx + HandlerBlockSize(sess.engine)
    IN  Slice(sess.file_data, start_idx, end_idx)

\* _get_next_data, lines 299-304: whether this call marks the session done.
\* last_read_count is None (-1 here) until the first call.
NextDataIsLast(sess, data) ==
    LET last_read_count ==
            IF sess.last_read_count = -1 THEN Len(data) ELSE sess.last_read_count
    IN  last_read_count < sess.block_size

\* _get_next_data, its effect on the session.
get_next_data(st, s) ==
    LET sess == st.sessions[s]
        data == NextData(st, s)
    IN  [st EXCEPT !.sessions[s] =
            [sess EXCEPT !.block_number = @ + 1,
                         !.is_done = IF NextDataIsLast(sess, data) THEN TRUE ELSE @,
                         !.last_read_count = Len(data)]]

\* The block-number check accepting any block number up to the expected one.
BlockNumberMatches_or_older(sess, packet) == packet.block_number <= sess.block_number

\* The block-number check of lines 358 and 385.
BlockNumberMatches(sess, packet) == packet.block_number = sess.block_number

\* _handle_packet_as_receiver, lines 364-372: a DATA packet with the expected
\* block number.
receive_data(st, s, packet) ==
    LET st1 == [st EXCEPT !.sessions[s].file_data = @ \o packet.data]
        st2 == send_ack_packet(st1, s, st1.sessions[s].block_number)
        st3 == [st2 EXCEPT !.sessions[s].block_number = @ + 1]
    IN  IF Len(packet.data) < st3.sessions[s].block_size
        THEN [st3 EXCEPT !.sessions[s].is_done = TRUE]
        ELSE st3

\* receive_oack without the increment of line 343.
receive_oack_no_increment(st, s) ==
    IF st.sessions[s].last_received_packet = "None"
    THEN IF st.sessions[s].request = "RRQ"
         THEN LET st1 == send_ack_packet(st, s, st.sessions[s].block_number)
              IN  [st1 EXCEPT !.sessions[s].file_data = << >>]
         ELSE st
    ELSE handle_error(st, s, 4)

\* _handle_packet_as_receiver, lines 338-349: an OACK.
receive_oack(st, s) ==
    IF st.sessions[s].last_received_packet = "None"
    THEN IF st.sessions[s].request = "RRQ"
         THEN LET st1 == send_ack_packet(st, s, st.sessions[s].block_number)
              IN  [st1 EXCEPT !.sessions[s].block_number = @ + 1,
                              !.sessions[s].file_data = << >>]
         ELSE st
    ELSE handle_error(st, s, 4)

\* _handle_packet_as_receiver
handle_packet_as_receiver(st, s, packet) ==
    IF packet.opcode = "ERROR" THEN handle_error(st, s, 0)
    ELSE IF packet.opcode = "OACK" THEN receive_oack(st, s)
    ELSE IF packet.opcode # "DATA" THEN handle_error(st, s, 4)
    ELSE IF ~BlockNumberMatches(st.sessions[s], packet) THEN handle_error(st, s, 0)
    ELSE receive_data(st, s, packet)

\* _handle_packet_as_sender
handle_packet_as_sender(st, s, packet) ==
    IF packet.opcode # "ACK" THEN handle_error(st, s, 4)
    ELSE IF ~BlockNumberMatches(st.sessions[s], packet) THEN handle_error(st, s, 0)
    ELSE LET data == NextData(st, s)
             st1 == get_next_data(st, s)
         IN  IF st1.sessions[s].is_done
             THEN st1
             ELSE send_data_packet(st1, s, st1.sessions[s].block_number, data)

\* _process_packet
process_packet(st, s, packet) ==
    IF packet.opcode = "ERROR" THEN handle_error(st, s, 0)
    ELSE IF st.sessions[s].is_client THEN handle_packet_as_receiver(st, s, packet)
    ELSE handle_packet_as_sender(st, s, packet)

\* ------------------------------------------------------------ the queues
\* A deque object no mapping entry and no data_came_in frame refers to.
DequeInUse(st, d) ==
    \/ \E e \in Engines, a \in Addresses : st.session_dict[e][a] = d
    \/ \E e \in Engines : dci[e].queue = d

FreshDeque(st) ==
    CHOOSE d \in 1..MaxDq :
        /\ ~DequeInUse(st, d)
        /\ \A d2 \in 1..(d - 1) : DequeInUse(st, d2)

\* Lines 94-96 and 213-215: create the key's deque if the key is absent, and
\* append the session.
enqueue(st, e, addr, s) ==
    LET d == IF st.session_dict[e][addr] = 0 THEN FreshDeque(st)
             ELSE st.session_dict[e][addr]
        old == IF st.session_dict[e][addr] = 0 THEN << >> ELSE st.deques[d]
    IN  [st EXCEPT !.session_dict[e][addr] = d,
                   !.deques[d] = Append(old, s)]

\* The head session of the key's deque (session_queue[0]).
HeadOf(st, e, addr) == Head(st.deques[st.session_dict[e][addr]])

\* A new Session object: its id is its position in sessions.
create(st, sess) ==
    [st EXCEPT !.sessions = Append(@, sess), !.calls = Append(@, NoCalls)]

\* session.next_func(): the closure download_file stored, or None, which is
\* not callable.
call_next_func(st, s) ==
    IF st.sessions[s].next_func = "send_request_packet"
    THEN send_request_packet(st, s)
    ELSE Raise(st, "TypeError")

\* ---------------------------------------------------------- download_file
\* download_file sending the RRQ whether or not the new session is the head.
download_file_always_sends(st, e, file_name, addr, has_callbacks) ==
    LET s == Len(st.sessions) + 1
        st1 == create(st, NewSession(e, TRUE, addr, file_name, << >>, 0,
                                     DEFAULT_BLOCK_SIZE, DEFAULT_TIMEOUT, has_callbacks))
        st2 == enqueue(st1, e, addr, s)
    IN  send_request_packet(st2, s)

download_file(st, e, file_name, addr, has_callbacks) ==
    LET s == Len(st.sessions) + 1
        st1 == create(st, NewSession(e, TRUE, addr, file_name, << >>, 0,
                                     DEFAULT_BLOCK_SIZE, DEFAULT_TIMEOUT, has_callbacks))
        st2 == enqueue(st1, e, addr, s)
    IN  IF HeadOf(st2, e, addr) = s
        THEN send_request_packet(st2, s)
        ELSE [st2 EXCEPT !.sessions[s].next_func = "send_request_packet"]

\* ----------------------------------------------------- _handle_new_request
\* The validation without the test for the timeout option.
RequestIsDropped_blksize_only(packet) ==
    \/ packet.opcode # "RRQ"
    \/ packet.opts = NoOptions
    \/ "blksize" \notin packet.opts

\* Lines 185-196: the requests that are logged and dropped.
RequestIsDropped(packet) ==
    \/ packet.opcode # "RRQ"
    \/ packet.opts = NoOptions
    \/ "blksize" \notin packet.opts
    \/ "timeout" \notin packet.opts

handle_new_request(st, e, addr, packet) ==
    IF RequestIsDropped(packet) THEN st
    ELSE IF LoadRaises(packet.file_name) THEN Raise(st, "OSError")
    ELSE LET s == Len(st.sessions) + 1
             file_data == FileContent(packet.file_name)
             st1 == create(st, NewSession(e, FALSE, addr, packet.file_name, file_data,
                                          Len(file_data), packet.blksize, packet.timeout,
                                          FALSE))
             st2 == enqueue(st1, e, addr, s)
         IN  IF HeadOf(st2, e, addr) = s
             THEN send_oack_packet(st2, s)
             ELSE [st2 EXCEPT !.self_next_func[e] = s]

\* ------------------------------------------------------------ data_came_in
IsRequest(packet) == packet.opcode \in {"RRQ", "WRQ"}

\* DataCameIn with the lookup of line 152 written as setdefault(addr, deque()):
\* an absent key gets an empty deque.
DataCameIn_setdefault(e, addr, datagram) ==
    /\ dci[e].pc = "idle"
    /\ IF DecodeFails(datagram)
       THEN /\ Commit(Cur)
            /\ dci' = dci
       ELSE IF IsRequest(datagram)
       THEN /\ Len(sessions) < MaxSessions
            /\ Commit(handle_new_request(Cur, e, addr, datagram))
            /\ dci' = dci
       ELSE LET d == IF session_dict[e][addr] = 0 THEN FreshDeque(Cur)
                     ELSE session_dict[e][addr]
            IN  /\ Commit([Cur EXCEPT !.session_dict[e][addr] = d])
                /\ dci' = [dci EXCEPT ![e] = [pc |-> "check", addr |-> addr,
                                              packet |-> datagram, queue |-> d,
                                              session |-> 0]]
    /\ now' = now
    /\ last' = Op("data_came_in", e, datagram)

\* Lines 137-155, up to the release of the lock: decode, handle a request, or
\* look up the sender's deque for a response.
DataCameIn(e, addr, datagram) ==
    /\ dci[e].pc = "idle"
    /\ IF DecodeFails(datagram)
       THEN /\ Commit(Cur)
            /\ dci' = dci
       ELSE IF IsRequest(datagram)
       THEN /\ Len(sessions) < MaxSessions
            /\ Commit(handle_new_request(Cur, e, addr, datagram))
            /\ dci' = dci
       ELSE /\ Commit(Cur)
            /\ dci' = [dci EXCEPT ![e] = [pc |-> "check", addr |-> addr,
                                          packet |-> datagram,
                                          queue |-> session_dict[e][addr],
                                          session |-> 0]]
    /\ now' = now
    /\ last' = Op("data_came_in", e, datagram)

\* not session_queue: None, or an empty deque.
QueueIsEmpty(st, q) == IF q = 0 THEN TRUE ELSE st.deques[q] = << >>

\* Lines 153-157: discard the response, or take the head session.
DciCheck(e) ==
    /\ dci[e].pc = "check"
    /\ Commit(Cur)
    /\ dci' = [dci EXCEPT ![e] =
                 IF QueueIsEmpty(Cur, dci[e].queue) THEN IdleFrame
                 ELSE [@ EXCEPT !.pc = "process",
                                !.session = Head(deques[dci[e].queue])]]
    /\ now' = now
    /\ last' = Op("check", e, NoPacket)

\* The test of line 160 without its is_failed half.
IsTerminal_done_only(sess) == sess.is_done

\* Line 160.
IsTerminal(sess) == sess.is_done \/ sess.is_failed

\* Lines 158-161.
DciProcess(e) ==
    /\ dci[e].pc = "process"
    /\ LET st1 == process_packet(Cur, dci[e].session, dci[e].packet)
       IN  /\ Commit(st1)
           /\ dci' = [dci EXCEPT ![e] =
                        IF IsTerminal(st1.sessions[dci[e].session])
                        THEN [@ EXCEPT !.pc = "finish"]
                        ELSE IdleFrame]
    /\ now' = now
    /\ last' = Op("process", e, NoPacket)

\* Lines 174-177.
call_callbacks(st, s) ==
    LET sess == st.sessions[s]
    IN  IF sess.is_done /\ sess.has_callbacks
        THEN [st EXCEPT !.calls[s].success = @ + 1, !.calls[s].data = sess.file_data]
        ELSE IF sess.is_failed /\ sess.has_callbacks
        THEN [st EXCEPT !.calls[s].failure = @ + 1]
        ELSE st

\* finish with the callbacks invoked inside the locked region, before the
\* next session is started.
finish_callbacks_first(st, e, addr, q) ==
    IF st.deques[q] = << >> THEN Raise(st, "IndexError")
    ELSE LET st0 == call_callbacks(st, Head(st.deques[q]))
             st1 == [st0 EXCEPT !.deques[q] = Tail(@), !.session_dict[e][addr] = q]
         IN  IF st1.deques[q] # << >>
             THEN call_next_func(st1, Head(st1.deques[q]))
             ELSE [st1 EXCEPT !.session_dict[e][addr] = 0]

\* finish without the deletion of line 171: the key keeps its emptied deque.
finish_keeps_empty_entry(st, e, addr, q) ==
    IF st.deques[q] = << >> THEN Raise(st, "IndexError")
    ELSE LET st1 == [st EXCEPT !.deques[q] = Tail(@), !.session_dict[e][addr] = q]
         IN  IF st1.deques[q] # << >>
             THEN call_next_func(st1, Head(st1.deques[q]))
             ELSE st1

\* Lines 164-171, the locked region: pop the deque looked up earlier, store
\* it under the key again, start the next session or delete the key.
finish(st, e, addr, q) ==
    IF st.deques[q] = << >> THEN Raise(st, "IndexError")
    ELSE LET st1 == [st EXCEPT !.deques[q] = Tail(@), !.session_dict[e][addr] = q]
         IN  IF st1.deques[q] # << >>
             THEN call_next_func(st1, Head(st1.deques[q]))
             ELSE [st1 EXCEPT !.session_dict[e][addr] = 0]

DciFinish(e) ==
    /\ dci[e].pc = "finish"
    /\ LET st1 == finish(Cur, e, dci[e].addr, dci[e].queue)
       IN  /\ Commit(st1)
           /\ dci' = [dci EXCEPT ![e] =
                        IF st1.exc # "none" THEN IdleFrame
                        ELSE [@ EXCEPT !.pc = "callback", !.queue = 0]]
    /\ now' = now
    /\ last' = Op("finish", e, NoPacket)

DciCallback(e) ==
    /\ dci[e].pc = "callback"
    /\ Commit(call_callbacks(Cur, dci[e].session))
    /\ dci' = [dci EXCEPT ![e] = IdleFrame]
    /\ now' = now
    /\ last' = Op("callback", e, NoPacket)

\* ----------------------------------------------------------- _check_timeout
\* Line 114, the test that expires the head session.
TimedOut(sess) == sess.last_contact_time + sess.timeout > now

\* Lines 118-119.
call_timeout_callback(st, s) ==
    IF st.sessions[s].has_callbacks
    THEN [st EXCEPT !.calls[s].failure = @ + 1, !.calls[s].timeout = @ + 1]
    ELSE st

\* Lines 113-127, one iteration of the loop: the state it leaves, and whether
\* it leaves the loop (the return of line 124, or an exception).
check_timeout_body(st, e, key) ==
    LET q == st.session_dict[e][key]
    IN  IF st.deques[q] = << >>
        THEN [st |-> Raise(st, "IndexError"), stop |-> TRUE]
        ELSE LET s == Head(st.deques[q])
             IN  IF ~TimedOut(st.sessions[s])
                 THEN [st |-> st, stop |-> FALSE]
                 ELSE LET st1 == [st EXCEPT !.deques[q] = Tail(@)]
                          st2 == call_timeout_callback(st1, s)
                      IN  IF st2.deques[q] = << >>
                          THEN [st |-> [st2 EXCEPT !.session_dict[e][key] = 0],
                                stop |-> TRUE]
                          ELSE LET st3 == call_next_func(st2, Head(st2.deques[q]))
                               IN  [st |-> st3, stop |-> st3.exc # "none"]

RECURSIVE check_timeout_loop(_, _, _)
check_timeout_loop(st, e, keys) ==
    IF keys = << >> THEN st
    ELSE LET r == check_timeout_body(st, e, Head(keys))
         IN  IF r.stop THEN r.st ELSE check_timeout_loop(r.st, e, Tail(keys))

\* The keys of the mapping, in each order the dictionary may yield them.
Keys(e) == {a \in Addresses : session_dict[e][a] # 0}
Orders(S) ==
    {o \in [1..Cardinality(S) -> S] : \A i, j \in 1..Cardinality(S) : o[i] = o[j] => i = j}

CheckTimeout(e) ==
    /\ \E keys \in Orders(Keys(e)) : Commit(check_timeout_loop(Cur, e, keys))
    /\ last' = Op("check_timeout", e, NoPacket)
    /\ UNCHANGED <<dci, now>>

\* --------------------------------------------------------------- the clock
Tick ==
    /\ now < MaxTime
    /\ now' = now + 1
    /\ last' = Op("tick", 0, NoPacket)
    /\ UNCHANGED <<session_dict, deques, sessions, calls, self_next_func, dci, net, out, exc, origin>>

\* ------------------------------------------------------------------- Init
Init ==
    /\ session_dict = [e \in Engines |-> [a \in Addresses |-> 0]]
    /\ deques = [d \in 1..MaxDq |-> << >>]
    /\ sessions = << >>
    /\ calls = << >>
    /\ self_next_func = [e \in Engines |-> 0]
    /\ dci = [e \in Engines |-> IdleFrame]
    /\ now = 0
    /\ net = [e \in Engines |-> << >>]
    /\ out = << >>
    /\ exc = "none"
    /\ origin = [e \in Engines |-> 0]
    /\ last = Op("init", 0, NoPacket)

\* ------------------------------------------- one engine and its environment
\* Engine 1 runs; the host at address 2 sends it any datagram at any time.
EnvAddresses == {2}
EnvBlockSizes == {1, DEFAULT_BLOCK_SIZE}
EnvData == {<<5>>, <<5, 6>>}
EnvRequests ==
    {RrqPacket(f, BothOptions, b, DEFAULT_TIMEOUT) : f \in {"f1"}, b \in EnvBlockSizes}
    \cup {RrqPacket("f1", NoOptions, 0, 0),
          RrqPacket("f1", {"blksize"}, DEFAULT_BLOCK_SIZE, 0),
          RrqPacket("f1", {"timeout"}, 0, DEFAULT_TIMEOUT),
          RrqPacket("missing", BothOptions, DEFAULT_BLOCK_SIZE, DEFAULT_TIMEOUT),
          WrqPacket("f1")}
EnvResponses ==
    {AckPacket(bn) : bn \in 0..MaxBlock}
    \cup {DataPacket(bn, d) : bn \in 0..MaxBlock, d \in EnvData}
    \cup {OackPacket(0, DEFAULT_BLOCK_SIZE, DEFAULT_TIMEOUT, 0), ErrorPacket(0)}
EnvDatagrams == EnvRequests \cup EnvResponses \cup {Malformed}

\* The head session of a peer's deque has not run past the block numbers of
\* the model.
BlocksBounded(e, a) ==
    IF QueueIsEmpty(Cur, session_dict[e][a]) THEN TRUE
    ELSE sessions[HeadOf(Cur, e, a)].block_number <= MaxBlock

Download ==
    /\ Len(sessions) < MaxSessions
    /\ \E a \in EnvAddresses : Commit(download_file(Cur, 1, "f1", a, TRUE))
    /\ last' = Op("download_file", 1, NoPacket)
    /\ UNCHANGED <<dci, now, net, origin>>

Receive ==
    /\ \E a \in EnvAddresses, d \in EnvDatagrams :
          /\ BlocksBounded(1, a)
          /\ DataCameIn(1, a, d)
    /\ UNCHANGED <<net, origin>>

Check == DciCheck(1) /\ UNCHANGED <<net, origin>>
Process == DciProcess(1) /\ UNCHANGED <<net, origin>>
Finish == DciFinish(1) /\ UNCHANGED <<net, origin>>
Callback == DciCallback(1) /\ UNCHANGED <<net, origin>>
Sweep == CheckTimeout(1) /\ UNCHANGED <<net, origin>>

Next == Download \/ Receive \/ Check \/ Process \/ Finish \/ Callback \/ Sweep \/ Tick

Spec == Init /\ [][Next]_vars

\* ------------------------------------------------- two engines, end to end
\* Engines 1 and 2 run and exchange their packets over a transport that
\* delivers every packet, in the order sent.  No peer is silent, and the
\* sweep is left out.
RECURSIVE Route(_, _)
Route(n, o) ==
    IF o = << >> THEN n
    ELSE LET p == Head(o)
             n1 == IF p.to \in Engines
                   THEN [n EXCEPT ![p.to] = Append(@, [from |-> p.from, datagram |-> p.packet,
                                                       session |-> p.session])]
                   ELSE n
         IN  Route(n1, Tail(o))

Other(e) == 3 - e
NumClients == Cardinality({s \in DOMAIN sessions : sessions[s].is_client})

E2EDownload ==
    /\ 2 * (NumClients + 1) <= MaxSessions
    /\ \E e \in Engines, f \in FileNames :
          /\ Commit(download_file(Cur, e, f, Other(e), TRUE))
          /\ last' = Op("download_file", e, NoPacket)
    /\ net' = Route(net, out')
    /\ UNCHANGED <<dci, now, origin>>

E2EDeliver ==
    \E e \in Engines :
        /\ net[e] # << >>
        /\ DataCameIn(e, Head(net[e]).from, Head(net[e]).datagram)
        /\ net' = Route([net EXCEPT ![e] = Tail(@)], out')
        /\ origin' = [origin EXCEPT ![e] = Head(net[e]).session]

E2ECheck == \E e \in Engines : DciCheck(e) /\ net' = Route(net, out') /\ UNCHANGED origin
E2EProcess == \E e \in Engines : DciProcess(e) /\ net' = Route(net, out') /\ UNCHANGED origin
E2EFinish == \E e \in Engines : DciFinish(e) /\ net' = Route(net, out') /\ UNCHANGED origin
E2ECallback == \E e \in Engines : DciCallback(e) /\ net' = Route(net, out') /\ UNCHANGED origin

E2ERun == E2EDeliver \/ E2ECheck \/ E2EProcess \/ E2EFinish \/ E2ECallback

NextE2E == E2EDownload \/ E2EDeliver \/ E2ECheck \/ E2EProcess \/ E2EFinish \/ E2ECallback

SpecE2E == Init /\ [][NextE2E]_vars

\* The transport delivers what it holds and a callback that has started runs
\* to its end.
FairE2E == Init /\ [][NextE2E]_vars /\ WF_vars(E2ERun)

\* ------------------------------- two engines, a silent host and the sweep
\* Engines 1 and 2 download from each other and from the host at address 3,
\* which answers nothing; the transport between the engines delivers every
\* packet in the order sent; the sweep of either engine runs at any time.
MaxNetSessions == 3
NetFiles == {"f1", "f3"}

NetDownload ==
    /\ Len(sessions) < MaxNetSessions
    /\ \E e \in Engines, a \in Addresses, f \in NetFiles :
          /\ a # e
          /\ Commit(download_file(Cur, e, f, a, TRUE))
          /\ last' = Op("download_file", e, NoPacket)
    /\ net' = Route(net, out')
    /\ UNCHANGED <<dci, now, origin>>

NetSweep ==
    /\ \E e \in Engines : CheckTimeout(e)
    /\ net' = Route(net, out')
    /\ UNCHANGED origin

NextNet ==
    \/ NetDownload \/ E2EDeliver \/ E2ECheck \/ E2EProcess \/ E2EFinish \/ E2ECallback
    \/ NetSweep \/ Tick

SpecNet == Init /\ [][NextNet]_vars

\* ------------------------------------------------- one engine, serving
\* Engine 1 serves the files under its root_dir to the host at address 2,
\* which requests them with a block size of its choice and acknowledges
\* blocks.
MaxSrvBlock == 3
SrvBlockSizes == {1, DEFAULT_BLOCK_SIZE, 3}
SrvFiles == {"f0", "f1", "f3", "f4"}

SrvRequest ==
    /\ \E f \in SrvFiles, b \in SrvBlockSizes :
          DataCameIn(1, 2, RrqPacket(f, BothOptions, b, DEFAULT_TIMEOUT))
    /\ UNCHANGED <<net, origin>>

SrvAck ==
    /\ \E bn \in 0..MaxSrvBlock : DataCameIn(1, 2, AckPacket(bn))
    /\ UNCHANGED <<net, origin>>

NextSrv == SrvRequest \/ SrvAck \/ Check \/ Process \/ Finish \/ Callback

SpecSrv == Init /\ [][NextSrv]_vars

\* ==================================================================
\* Properties
\* ==================================================================
Total(s) == calls[s].success + calls[s].failure

\* The sessions in the deque the mapping holds for a peer.
Queued(e, a) == IF session_dict[e][a] = 0 THEN << >> ELSE deques[session_dict[e][a]]
InQueue(s) ==
    \E i \in DOMAIN Queued(sessions[s].engine, sessions[s].address) :
        Queued(sessions[s].engine, sessions[s].address)[i] = s
IsHead(s) ==
    /\ Queued(sessions[s].engine, sessions[s].address) # << >>
    /\ Head(Queued(sessions[s].engine, sessions[s].address)) = s

\* C1: every packet is sent on behalf of the session that is, at the moment
\* of sending, the head of its peer's queue; a session queued behind another
\* or already dequeued sends nothing.  (out holds the packets of the step
\* that led to the state; every step sends after its last change to the
\* queue it sends for.)
C1_OnlyHeadSends == \A i \in DOMAIN out : IsHead(out[i].session)

\* C1, the racing case: a packet sent by response processing on behalf of a
\* session the sweep has dequeued since data_came_in took it from its queue.
C1_DequeuedSessionSends ==
    /\ last.op = "process"
    /\ \E i \in DOMAIN out : ~InQueue(out[i].session)

\* A step that removes the head of a peer's queue and leaves the session
\* behind it as the new head.
Promoted(e, a, n) ==
    /\ Len(Queued(e, a)) >= 2
    /\ Queued(e, a)[2] = n
    /\ Queued(e, a)' = Tail(Queued(e, a))

InitialPacket(sess) == IF sess.is_client THEN "RRQ" ELSE "OACK"

\* C2: when the head of a queue is removed (terminal, or expired by the
\* sweep) and a session is queued behind it, the step that promotes that
\* session sends its initial packet: an RRQ for a client-role session, an
\* OACK for a server-role session.
C2_PromotionSendsInitialPacket ==
    [][\A e \in Engines, a \in Addresses, n \in DOMAIN sessions :
          Promoted(e, a, n) =>
              \E i \in DOMAIN out' :
                  /\ out'[i].session = n
                  /\ out'[i].packet.opcode = InitialPacket(sessions[n])]_vars

\* C3: a session created with callbacks gets at most one terminal callback,
\* and exactly one once it has left its queue and no data_came_in call that
\* took it is still on its way to the callbacks.
InProgress(s) == \E e \in Engines : dci[e].session = s
C3_ExactlyOneCallback ==
    \A s \in DOMAIN sessions :
        sessions[s].has_callbacks =>
            /\ Total(s) <= 1
            /\ (~InQueue(s) /\ ~InProgress(s)) => Total(s) = 1

\* A finish step of data_came_in (lines 164-171) that finds a session behind
\* the one it pops, and so calls that session's next_func.
FinishPromotes(e) ==
    /\ dci[e].pc = "finish"
    /\ last'.op = "finish" /\ last'.engine = e
    /\ Len(deques[dci[e].queue]) >= 2

Processes(e, s) ==
    /\ dci[e].pc = "process"
    /\ dci[e].session = s
    /\ last'.op = "process" /\ last'.engine = e

\* C5: a block-number mismatch fails the session.  Server role: an ACK whose
\* block number is not the session's (the number of the last block sent)
\* marks the session failed, and the one packet sent is an ERROR, no DATA.
\* Client role: a DATA packet whose block number is not the expected one
\* marks the session failed, sends no ACK and leaves file_data as it was.
C5_MismatchFails ==
    [][\A e \in Engines, s \in DOMAIN sessions :
          (/\ Processes(e, s)
           /\ dci[e].packet.opcode = (IF sessions[s].is_client THEN "DATA" ELSE "ACK")
           /\ dci[e].packet.block_number # sessions[s].block_number)
          => /\ sessions'[s].is_failed
             /\ ~sessions'[s].is_done
             /\ Len(out') = 1
             /\ out'[1].packet.opcode = "ERROR"
             /\ out'[1].session = s
             /\ sessions'[s].file_data = sessions[s].file_data
             /\ sessions'[s].block_number = sessions[s].block_number]_vars

\* C5, the case: a server-role session that had sent DATA 1 has been failed
\* by an ACK for block 0, and has answered with an ERROR.
C5_ServerFailedByStaleAck ==
    \E e \in Engines :
        /\ dci[e].pc = "finish"
        /\ last.op = "process"
        /\ ~sessions[dci[e].session].is_client
        /\ sessions[dci[e].session].is_failed
        /\ sessions[dci[e].session].block_number = 1
        /\ dci[e].packet = AckPacket(0)
        /\ Len(out) = 1 /\ out[1].packet.opcode = "ERROR"

\* C6: a session's block number never decreases and changes only by +1, and
\* it does so exactly in the steps of response processing that accept a
\* packet for it, that is, that do not fail it.
C6_BlockNumberSteps ==
    [][\A s \in DOMAIN sessions :
          /\ sessions'[s].block_number \in
                 {sessions[s].block_number, sessions[s].block_number + 1}
          /\ sessions'[s].block_number = sessions[s].block_number + 1
                 <=> \E e \in Engines : Processes(e, s) /\ ~sessions'[s].is_failed]_vars

\* C6, the case: a client-role session has accepted an OACK and a DATA
\* block, and a server-role session an ACK.
C6_BlocksAdvanced ==
    /\ \E s \in DOMAIN sessions :
          sessions[s].is_client /\ sessions[s].block_number = 2 /\ ~sessions[s].is_failed
    /\ \E s \in DOMAIN sessions :
          ~sessions[s].is_client /\ sessions[s].block_number = 1

\* Line 114 as the claim states it: the session's timeout has elapsed.
Elapsed(sess) == now >= sess.last_contact_time + sess.timeout

\* C7: a run of the sweep removes the head session of a queue, marks it
\* failed and invokes its failure callback with reason timeout if and only
\* if last_contact_time + timeout has elapsed; a head contacted more recently
\* stays the head.
C7_SweepExpiresIffElapsed ==
    [][\A e \in Engines, a \in Addresses, s \in DOMAIN sessions :
          (/\ last'.op = "check_timeout" /\ last'.engine = e
           /\ a \in Keys(e) /\ Queued(e, a) # << >> /\ Head(Queued(e, a)) = s) =>
                  IF Elapsed(sessions[s])
                  THEN /\ ~InQueue(s)'
                       /\ sessions'[s].is_failed
                       /\ sessions[s].has_callbacks =>
                              calls'[s].timeout = calls[s].timeout + 1
                  ELSE /\ IsHead(s)'
                       /\ calls'[s] = calls[s]]_vars

\* The part of the state a discarded datagram must leave alone.
Engine == <<session_dict, deques, sessions, calls, self_next_func>>

\* C9: a datagram discarded on entry changes nothing.  data_came_in given
\* bytes that do not decode, the lookup for a response, and the return taken
\* when the sender's queue is absent or empty each leave the mapping, the
\* queues, every session and the callbacks as they were, send nothing and
\* raise nothing.
C9_DiscardChangesNothing ==
    [][\A e \in Engines :
          (\/ /\ last'.op = "data_came_in" /\ last'.engine = e
              /\ last'.datagram.opcode \notin {"RRQ", "WRQ"}
           \/ /\ last'.op = "check" /\ last'.engine = e
              /\ QueueIsEmpty(Cur, dci[e].queue))
          => /\ Engine' = Engine
             /\ out' = << >>
             /\ exc' = "none"
             /\ (last'.op = "check" \/ last'.datagram = Malformed) => dci'[e] = IdleFrame]_vars

\* C9, the case: a response has been discarded, its sender's queue absent,
\* after sessions were created and removed.
C9_ResponseDiscarded ==
    /\ last.op = "check"
    /\ dci[last.engine] = IdleFrame
    /\ sessions # << >>

\* C10: is_done and is_failed are never both set, and a flag that is set
\* stays set.
C10_TerminalFlags ==
    /\ [](\A s \in DOMAIN sessions : ~(sessions[s].is_done /\ sessions[s].is_failed))
    /\ [][\A s \in DOMAIN sessions :
             /\ sessions[s].is_done => sessions'[s].is_done
             /\ sessions[s].is_failed => sessions'[s].is_failed]_vars

\* C10, the case: one session is done and another has failed, and steps have
\* been taken since.
C10_DoneAndFailed ==
    /\ \E s \in DOMAIN sessions : sessions[s].is_done /\ ~InQueue(s)
    /\ \E s \in DOMAIN sessions : sessions[s].is_failed /\ ~InQueue(s)

\* The server-role session on the peer engine that serves client session s.
Serves(t, s) ==
    /\ ~sessions[t].is_client
    /\ sessions[t].engine = sessions[s].address
    /\ sessions[t].address = sessions[s].engine
    /\ sessions[t].file_name = sessions[s].file_name

\* The download of client session s is complete: both sessions are done and
\* success_callback was given the server's payload.
Completed(s) ==
    /\ s \in DOMAIN sessions
    /\ sessions[s].is_done
    /\ calls[s].success = 1
    /\ calls[s].data = FileContent(sessions[s].file_name)
    /\ \E t \in DOMAIN sessions : Serves(t, s) /\ sessions[t].is_done

\* C8: over a transport that loses and reorders nothing, a download of any
\* payload (shorter than a block, empty, an exact multiple of the block size)
\* eventually marks the client's and the server's session done, and the bytes
\* given to success_callback are the server's payload.
C8_DownloadCompletes ==
    \A s \in 1..MaxSessions :
        (s \in DOMAIN sessions /\ sessions[s].is_client) ~> Completed(s)

\* C8, as a final result: once no datagram is on its way and no handler is
\* in data_came_in, nothing more can happen to a download, so by then it has
\* completed.
C8_QuietMeansCompleted ==
    (/\ \A e \in Engines : net[e] = << >> /\ dci[e] = IdleFrame)
        => \A s \in DOMAIN sessions : sessions[s].is_client => Completed(s)

\* C8, the downloads that do complete: a payload of at least one block.
C8_FullBlockDownloadCompletes ==
    \A s \in 1..MaxSessions :
        (/\ s \in DOMAIN sessions /\ sessions[s].is_client
         /\ Len(FileContent(sessions[s].file_name)) >= DEFAULT_BLOCK_SIZE) ~> Completed(s)


\* C11: when the session taken from the head of a peer's queue is given an
\* ERROR packet from the peer, it is marked failed and no packet of any kind
\* is sent in response.
C11_RemoteErrorNoReply ==
    [][\A e \in Engines, s \in DOMAIN sessions :
          (Processes(e, s) /\ dci[e].packet.opcode = "ERROR")
              => sessions'[s].is_failed /\ out' = << >>]_vars


\* The session at the other end of session t's transfer: on the peer engine,
\* for the reverse direction, in the other role, for the same file.
Counterpart(u, t) ==
    /\ u \in DOMAIN sessions
    /\ sessions[u].engine = sessions[t].address
    /\ sessions[u].address = sessions[t].engine
    /\ sessions[u].is_client # sessions[t].is_client
    /\ sessions[u].file_name = sessions[t].file_name

\* C12: failures are local to one session.  A session is marked failed only
\* by the processing of a packet of its own transfer, sent on behalf of the
\* session at its other end; what happens to any other session (a protocol
\* violation, an ERROR it received, its expiry by the sweep) marks no session
\* failed that is queued behind it, on the peer engine or for another peer.
C12_FailuresAreLocal ==
    [][\A t \in DOMAIN sessions :
          (~sessions[t].is_failed /\ sessions'[t].is_failed)
              => \E e \in Engines : Processes(e, t) /\ Counterpart(origin[e], t)]_vars

\* A data_came_in call of engine e given a read request with both options
\* that names a resource _load_file / _load_directory cannot resolve.
UnresolvedRequest(e) ==
    /\ last'.op = "data_came_in" /\ last'.engine = e
    /\ last'.datagram.opcode = "RRQ"
    /\ ~RequestIsDropped(last'.datagram)
    /\ LoadRaises(last'.datagram.file_name)

\* C13: a read request that names a resource that cannot be resolved is
\* aborted as a logged outcome: no session is created, the mapping is as it
\* was, nothing is sent, and data_came_in returns without an exception
\* reaching its caller.
C13_UnresolvedRequestReturns ==
    [][\A e \in Engines :
          UnresolvedRequest(e)
              => /\ Engine' = Engine
                 /\ out' = << >>
                 /\ exc' = "none"]_vars

\* A READ request that carries both the blksize and the timeout option.
ReadWithBothOptions(packet) ==
    /\ packet.opcode = "RRQ"
    /\ "blksize" \in packet.opts
    /\ "timeout" \in packet.opts

\* C14: new-request handling creates a session only for a READ request with
\* both the blksize and the timeout option.  A WRITE request, a request
\* without options and a request missing one of the two options are dropped:
\* the mapping, the queues and the sessions stay as they were and no packet is
\* sent.
C14_OnlyValidReadCreatesSession ==
    [][(last'.op = "data_came_in" /\ last'.datagram.opcode \in {"RRQ", "WRQ"})
          => /\ ~ReadWithBothOptions(last'.datagram)
                    => Engine' = Engine /\ out' = << >> /\ exc' = "none"
             /\ sessions' # sessions
                    => /\ ReadWithBothOptions(last'.datagram)
                       /\ Len(sessions') = Len(sessions) + 1
                       /\ ~sessions'[Len(sessions')].is_client]_vars

\* C14, the case: a READ request with blksize and without timeout has been
\* dropped while the mapping held a session.
C14_RequestWithoutTimeoutDropped ==
    /\ last.op = "data_came_in"
    /\ last.datagram = RrqPacket("f1", {"blksize"}, DEFAULT_BLOCK_SIZE, 0)
    /\ sessions # << >>
    /\ out = << >>

\* C15: download_file appends exactly one client-role READ session to the
\* tail of the peer's queue and touches no other queue or session.  If the
\* peer had no queue, exactly one RRQ with the session's blksize and timeout
\* is sent in the same step; if a session is queued for the peer already, no
\* packet is sent and the deferred start is recorded on the new session.
C15_DownloadEnqueuesOneSession ==
    [][\A e \in Engines, a \in Addresses, s \in 1..(MaxSessions + MaxNetSessions) :
          (last'.op = "download_file" /\ last'.engine = e
             /\ s = Len(sessions) + 1 /\ s \in DOMAIN sessions' /\ sessions'[s].address = a)
          => /\ Len(sessions') = s
             /\ \A t \in DOMAIN sessions : sessions'[t] = sessions[t]
             /\ sessions'[s].is_client /\ sessions'[s].request = "RRQ"
             /\ sessions'[s].engine = e
             /\ Queued(e, a)' = Append(Queued(e, a), s)
             /\ \A e2 \in Engines, b \in Addresses :
                    <<e2, b>> # <<e, a>> => Queued(e2, b)' = Queued(e2, b)
             /\ IF Queued(e, a) = << >>
                THEN /\ Len(out') = 1
                     /\ out'[1].session = s /\ out'[1].to = a
                     /\ out'[1].packet.opcode = "RRQ"
                     /\ out'[1].packet.file_name = sessions'[s].file_name
                     /\ out'[1].packet.opts = {"blksize", "timeout"}
                     /\ out'[1].packet.blksize = sessions'[s].block_size
                     /\ out'[1].packet.timeout = sessions'[s].timeout
                ELSE /\ out' = << >>
                     /\ sessions'[s].next_func = "send_request_packet"]_vars

\* C15, the case: a download was started while another session was queued for
\* the peer, and nothing was sent.
C15_DownloadQueuedBehind ==
    /\ last.op = "download_file"
    /\ Len(sessions) >= 2
    /\ ~IsHead(Len(sessions))
    /\ sessions[Len(sessions)].next_func = "send_request_packet"
    /\ out = << >>

\* The block the session most recently extracted and sent as DATA was the
\* short one.  last_read_count is the length of the block of the previous
\* _get_next_data call, None (-1) when there was none; a session that is not
\* done has sent every block it extracted (lines 394-396).
ShortBlockSent(sess) ==
    /\ sess.last_read_count # -1
    /\ sess.last_read_count < sess.block_size

\* C16: a server-role session is marked done only after the DATA packet with
\* the final short block (shorter than the negotiated block size, possibly
\* empty) has been sent, for every payload length, a payload shorter than one
\* block included.
C16_DoneOnlyAfterShortBlockSent ==
    [][\A e \in Engines, s \in DOMAIN sessions :
          (/\ Processes(e, s)
           /\ ~sessions[s].is_client
           /\ ~sessions[s].is_done /\ sessions'[s].is_done)
              => ShortBlockSent(sessions[s])]_vars

\* The block of a server-role session's payload that starts at
\* block_number * block_size and has at most block_size bytes, block_size
\* being the session's negotiated one.
NegotiatedBlock(sess) ==
    Slice(sess.file_data, sess.block_number * sess.block_size,
          sess.block_number * sess.block_size + sess.block_size)

\* C17: every DATA packet a server-role session sends carries the slice of
\* its payload that starts at block_number * block_size and has at most
\* block_size bytes, for the block size the requester chose, whether or not it
\* is the engine's own: the payloads sent are contiguous, do not overlap and
\* none is longer than the negotiated block size.
C17_BlockIsNegotiatedSlice ==
    [][\A s \in DOMAIN sessions, i \in DOMAIN out' :
          (out'[i].session = s /\ out'[i].packet.opcode = "DATA")
              => /\ out'[i].packet.data = NegotiatedBlock(sessions[s])
                 /\ Len(out'[i].packet.data) <= sessions[s].block_size]_vars

\* The locked region of lines 164-171, run by engine e, removes session s
\* from the deque that data_came_in looked up.
FinishDequeues(e, s) ==
    /\ dci[e].pc = "finish"
    /\ last'.op = "finish" /\ last'.engine = e
    /\ deques[dci[e].queue] # << >>
    /\ Head(deques[dci[e].queue]) = s
    /\ deques'[dci[e].queue] = Tail(deques[dci[e].queue])

\* C18: under every interleaving with the sweep and download_file, the lookup
\* of the head session, its response processing and its removal are one
\* atomic step on the mapping: the session data_came_in dequeues is the one
\* that processed the packet, and it is terminal.
C18_DequeuesTheSessionProcessed ==
    [][\A e \in Engines, s \in DOMAIN sessions :
          FinishDequeues(e, s)
              => /\ s = dci[e].session
                 /\ sessions[s].is_done \/ sessions[s].is_failed]_vars

\* C19: a session leaves its peer's queue only in a terminal state.  The
\* session a step of data_came_in or of the sweep dequeues has is_done or
\* is_failed set when the step ends, and the one the sweep expires is marked
\* failed.
C19_DequeuedSessionIsTerminal ==
    [][\A s \in DOMAIN sessions :
          (InQueue(s) /\ ~InQueue(s)')
              => /\ sessions'[s].is_done \/ sessions'[s].is_failed
                 /\ last'.op = "check_timeout" => sessions'[s].is_failed]_vars

\* C20: one run of the sweep inspects the head session of every peer queue.
\* Of two head sessions of one engine that are due at the same time (the same
\* last_contact_time + timeout, so expired together or not at all), a sweep
\* that expires one expires the other too, also when expiring the first
\* empties its queue and removes its peer's entry.
C20_SweepInspectsEveryQueue ==
    [][\A e \in Engines, a1, a2 \in Addresses, s1, s2 \in DOMAIN sessions :
          (/\ last'.op = "check_timeout" /\ last'.engine = e
           /\ Queued(e, a1) # << >> /\ Head(Queued(e, a1)) = s1
           /\ Queued(e, a2) # << >> /\ Head(Queued(e, a2)) = s2
           /\ sessions[s1].last_contact_time + sessions[s1].timeout
                  = sessions[s2].last_contact_time + sessions[s2].timeout
           /\ ~InQueue(s1)')
              => ~InQueue(s2)']_vars

\* The session has accepted a packet already: every OACK and every DATA block
\* a client-role session accepts advances its block number (lines 343, 368).
HasReceived(sess) == sess.block_number > 0

\* C21: a client-role session accepts an OACK only as the first packet it
\* receives.  An OACK given to a session that has accepted a packet already
\* fails the session, is answered by one ERROR with code 4 (illegal
\* operation), and neither clears the data accumulated so far nor advances
\* the block number.
C21_LateOackFails ==
    [][\A e \in Engines, s \in DOMAIN sessions :
          (/\ Processes(e, s)
           /\ sessions[s].is_client
           /\ dci[e].packet.opcode = "OACK"
           /\ HasReceived(sessions[s]))
              => /\ sessions'[s].is_failed
                 /\ Len(out') = 1
                 /\ out'[1].session = s
                 /\ out'[1].packet = ErrorPacket(4)
                 /\ sessions'[s].file_data = sessions[s].file_data
                 /\ sessions'[s].block_number = sessions[s].block_number]_vars

=============================================================================
